---- MODULE Spec2Model ----
(***************************************************************************)
(* Model of OutOfBandDiagnosticRecorderImpl                                *)
(* (packages/compiler-cli/src/ngtsc/typecheck/src/oob.ts).                 *)
(*                                                                         *)
(* The recorder owns one array, _diagnostics, and borrows one              *)
(* TemplateSourceResolver.  Each of the six reporting methods is one       *)
(* action; a method either returns after pushing one diagnostic or throws  *)
(* before pushing anything.                                                *)
(***************************************************************************)
EXTENDS Integers, Sequences, FiniteSets, TLC

VARIABLES
    diagnostics,   \* this._diagnostics
    resolver,      \* this.resolver: which template-relative spans it can map
    last,          \* the most recent call: method, arguments, how it ended
    calls          \* the calls that returned, in call order, with the record each built

vars == <<diagnostics, resolver, last, calls>>

(***************************************************************************)
(* Bounds of the model.                                                    *)
(***************************************************************************)
MaxDiags == 2      \* calls that return, per recorder

(***************************************************************************)
(* Values.  Every location is a triple <<kind, owner, offset>>.            *)
(***************************************************************************)
Null == <<"null", "", 0>>
AbsoluteSourceSpan(n) == <<"abs", "", n>>        \* template-relative offsets
ParseSourceSpan(n) == <<"ast", "", n>>           \* a span carried by a template AST node
Identifier(c) == <<"ident", c, 0>>               \* ClassDeclaration.name, a ts.Node
SourceFile(node) == <<"file", node[2], 0>>       \* node.getSourceFile()

TemplateIds == {"tcb1", "tcb2"}
AbsSpans == {AbsoluteSourceSpan(1), AbsoluteSourceSpan(2)}

\* TmplAstReference: value, valueSpan (optional), sourceSpan
Refs ==
    { [value |-> <<" ", "a", " ", "b", " ">>, valueSpan |-> ParseSourceSpan(2),
       sourceSpan |-> ParseSourceSpan(1)],
      [value |-> <<"\t", "c">>, valueSpan |-> Null, sourceSpan |-> ParseSourceSpan(3)] }

\* BindingPipe: name, nameSpan
Pipes ==
    { [name |-> "currency", nameSpan |-> AbsoluteSourceSpan(1)],
      [name |-> "date", nameSpan |-> AbsoluteSourceSpan(2)] }

\* PropertyWrite: name, sourceSpan
PropertyWrites ==
    { [name |-> "item", sourceSpan |-> AbsoluteSourceSpan(2)] }

\* TmplAstVariable: name, valueSpan (optional), sourceSpan
Variables ==
    { [name |-> "item", valueSpan |-> Null, sourceSpan |-> ParseSourceSpan(4)],
      [name |-> "idx", valueSpan |-> ParseSourceSpan(6), sourceSpan |-> ParseSourceSpan(5)] }

\* ClassDeclaration: name (an identifier node)
Components == { [name |-> Identifier("AppCmp")] }
DirA == [name |-> Identifier("DirA")]
DirB == [name |-> Identifier("DirB")]

\* ClassDeclaration[]: the `directives` argument, of lengths 0 to 3
DirectiveLists == { <<>>, <<DirA>>, <<DirB, DirA>>, <<DirA, DirB, DirA>> }

Resolvers == [AbsSpans -> BOOLEAN]

(***************************************************************************)
(* String.prototype.trim on a string given as its sequence of characters.  *)
(***************************************************************************)
WhiteSpace == {" ", "\t", "\n"}

RECURSIVE trimStart(_)
trimStart(s) ==
    IF s # <<>> /\ Head(s) \in WhiteSpace THEN trimStart(Tail(s)) ELSE s

RECURSIVE trimEnd(_)
trimEnd(s) ==
    IF s # <<>> /\ s[Len(s)] \in WhiteSpace
    THEN trimEnd(SubSeq(s, 1, Len(s) - 1))
    ELSE s

trim(s) == trimEnd(trimStart(s))

(***************************************************************************)
(* The resolver (TemplateSourceResolver, an interface the recorder calls). *)
(***************************************************************************)
getSourceMapping(templateId) == <<"mapping", templateId, 0>>

toParseSourceSpan(templateId, span) ==
    IF resolver[span] THEN <<"parsed", templateId, span[3]>> ELSE Null

(***************************************************************************)
(* Helpers imported by oob.ts.                                             *)
(***************************************************************************)
ngErrorCode(code) == <<"NG", code>>

makeRelatedInformation(node, messageText) ==
    [anchor |-> node, messageText |-> messageText]

\* makeDiagnostic(code, node, messageText, relatedInformation?)
makeDiagnostic(code, node, messageText, relatedInformation) ==
    [category |-> "Error",
     code |-> ngErrorCode(code),
     anchor |-> node,
     messageText |-> messageText,
     relatedInformation |-> relatedInformation]

\* makeTemplateDiagnostic(templateId, mapping, span, category, code, messageText,
\* relatedMessage?); relatedMessage is <<>> when the argument is omitted and
\* <<[text, span]>> when it is given.
makeTemplateDiagnostic(templateId, mapping, span, category, code, messageText, relatedMessage) ==
    [category |-> category,
     code |-> code,
     anchor |-> span,
     messageText |-> messageText,
     relatedInformation |->
        [i \in 1..Len(relatedMessage) |->
            makeRelatedInformation(relatedMessage[i].span, relatedMessage[i].text)],
     componentFile |-> mapping,
     templateId |-> templateId]

(***************************************************************************)
(* oob.ts                                                                  *)
(***************************************************************************)
\* a bug: the fallback operand is always taken
OrElseAlwaysFallback(a, b) == b

\* a || b on optional spans
OrElse(a, b) == IF a # Null THEN a ELSE b

\* a bug: unshift in place of push
pushFront(arr, d) == <<d>> \o arr

\* Array.prototype.push
push(arr, d) == Append(arr, d)

\* A method body ends by returning after one push, or by throwing.
Returned(d) == [threw |-> FALSE, diagnostics |-> push(diagnostics, d), created |-> d]
Thrown == [threw |-> TRUE, diagnostics |-> diagnostics]

\* a bug: the templateId property is left out of the object literal
makeInlineDiagnosticNoTemplateId(templateId, code, node, messageText, relatedInformation) ==
    [componentFile |-> SourceFile(node), templateId |-> ""]
        @@ makeDiagnostic(code, node, messageText, relatedInformation)

makeInlineDiagnostic(templateId, code, node, messageText, relatedInformation) ==
    [componentFile |-> SourceFile(node), templateId |-> templateId]
        @@ makeDiagnostic(code, node, messageText, relatedInformation)

\* a bug: a reference without a value span is treated as fatal
missingReferenceTargetStrict(templateId, ref) ==
    LET mapping == getSourceMapping(templateId)
        value == trim(ref.value)
        errorMsg == <<"No directive found with exportAs '">> \o value \o <<"'.">>
    IN  IF ref.valueSpan = Null
        THEN Thrown
        ELSE Returned(makeTemplateDiagnostic(
                 templateId, mapping, ref.valueSpan, "Error",
                 ngErrorCode("MISSING_REFERENCE_TARGET"), errorMsg, <<>>))

missingReferenceTarget(templateId, ref) ==
    LET mapping == getSourceMapping(templateId)
        value == trim(ref.value)
        errorMsg == <<"No directive found with exportAs '">> \o value \o <<"'.">>
    IN  Returned(makeTemplateDiagnostic(
            templateId, mapping, OrElse(ref.valueSpan, ref.sourceSpan), "Error",
            ngErrorCode("MISSING_REFERENCE_TARGET"), errorMsg, <<>>))

\* a bug: the null check on the resolved span is missing
missingPipeNoCheck(templateId, ast) ==
    LET mapping == getSourceMapping(templateId)
        errorMsg == <<"No pipe found with name '", ast.name, "'.">>
        sourceSpan == toParseSourceSpan(templateId, ast.nameSpan)
    IN  Returned(makeTemplateDiagnostic(
            templateId, mapping, sourceSpan, "Error",
            ngErrorCode("MISSING_PIPE"), errorMsg, <<>>))

missingPipe(templateId, ast) ==
    LET mapping == getSourceMapping(templateId)
        errorMsg == <<"No pipe found with name '", ast.name, "'.">>
        sourceSpan == toParseSourceSpan(templateId, ast.nameSpan)
    IN  IF sourceSpan = Null
        THEN Thrown
        ELSE Returned(makeTemplateDiagnostic(
                 templateId, mapping, sourceSpan, "Error",
                 ngErrorCode("MISSING_PIPE"), errorMsg, <<>>))

\* a bug: an unresolvable assignment span is reported at the target variable
\* instead of being fatal
illegalAssignmentToTemplateVarDowngrade(templateId, assignment, target) ==
    LET mapping == getSourceMapping(templateId)
        errorMsg == <<"Cannot use variable '", assignment.name,
                      "' as the left-hand side of an assignment expression. Template variables are read-only.">>
        sourceSpan == toParseSourceSpan(templateId, assignment.sourceSpan)
    IN  Returned(makeTemplateDiagnostic(
            templateId, mapping, OrElse(sourceSpan, target.sourceSpan), "Error",
            ngErrorCode("WRITE_TO_READ_ONLY_VARIABLE"), errorMsg,
            << [text |-> <<"The variable ", assignment.name, " is declared here.">>,
                span |-> OrElse(target.valueSpan, target.sourceSpan)] >>))

\* a bug: the null check on the resolved span is missing
illegalAssignmentToTemplateVarNoCheck(templateId, assignment, target) ==
    LET mapping == getSourceMapping(templateId)
        errorMsg == <<"Cannot use variable '", assignment.name,
                      "' as the left-hand side of an assignment expression. Template variables are read-only.">>
        sourceSpan == toParseSourceSpan(templateId, assignment.sourceSpan)
    IN  Returned(makeTemplateDiagnostic(
            templateId, mapping, sourceSpan, "Error",
            ngErrorCode("WRITE_TO_READ_ONLY_VARIABLE"), errorMsg,
            << [text |-> <<"The variable ", assignment.name, " is declared here.">>,
                span |-> OrElse(target.valueSpan, target.sourceSpan)] >>))

illegalAssignmentToTemplateVar(templateId, assignment, target) ==
    LET mapping == getSourceMapping(templateId)
        errorMsg == <<"Cannot use variable '", assignment.name,
                      "' as the left-hand side of an assignment expression. Template variables are read-only.">>
        sourceSpan == toParseSourceSpan(templateId, assignment.sourceSpan)
    IN  IF sourceSpan = Null
        THEN Thrown
        ELSE Returned(makeTemplateDiagnostic(
                 templateId, mapping, sourceSpan, "Error",
                 ngErrorCode("WRITE_TO_READ_ONLY_VARIABLE"), errorMsg,
                 << [text |-> <<"The variable ", assignment.name, " is declared here.">>,
                     span |-> OrElse(target.valueSpan, target.sourceSpan)] >>))

\* a bug: the two declarations' spans are exchanged
duplicateTemplateVarSwapped(templateId, variable, firstDecl) ==
    LET mapping == getSourceMapping(templateId)
        errorMsg == <<"Cannot redeclare variable '", variable.name,
                      "' as it was previously declared elsewhere for the same template.">>
    IN  Returned(makeTemplateDiagnostic(
            templateId, mapping, firstDecl.sourceSpan, "Error",
            ngErrorCode("DUPLICATE_VARIABLE_DECLARATION"), errorMsg,
            << [text |-> <<"The variable '", firstDecl.name, "' was first declared here.">>,
                span |-> variable.sourceSpan] >>))

duplicateTemplateVar(templateId, variable, firstDecl) ==
    LET mapping == getSourceMapping(templateId)
        errorMsg == <<"Cannot redeclare variable '", variable.name,
                      "' as it was previously declared elsewhere for the same template.">>
    IN  Returned(makeTemplateDiagnostic(
            templateId, mapping, variable.sourceSpan, "Error",
            ngErrorCode("DUPLICATE_VARIABLE_DECLARATION"), errorMsg,
            << [text |-> <<"The variable '", firstDecl.name, "' was first declared here.">>,
                span |-> firstDecl.sourceSpan] >>))

InlineTcbMessage ==
    <<"This component requires inline template type-checking, which is not supported by the current environment.">>

requiresInlineTcb(templateId, node) ==
    Returned(makeInlineDiagnostic(
        templateId, "INLINE_TCB_REQUIRED", node.name, InlineTcbMessage, <<>>))

PluralMessage ==
    <<"This component uses directives which require inline type constructors, which are not supported by the current environment.">>
SingularMessage ==
    <<"This component uses a directive which requires an inline type constructor, which is not supported by the current environment.">>
RequiresCtorText == <<"Requires an inline type constructor.">>

\* a bug: the comparison is >= 1 in place of > 1
InlineTypeCtorMessageOffByOne(directives) ==
    IF Len(directives) >= 1 THEN PluralMessage ELSE SingularMessage

\* the `let message` of requiresInlineTypeConstructors
InlineTypeCtorMessage(directives) ==
    IF Len(directives) > 1 THEN PluralMessage ELSE SingularMessage

\* a bug: the related information is built from the first directive only
InlineTypeCtorRelatedFirstOnly(directives) ==
    [i \in 1..(IF Len(directives) > 0 THEN 1 ELSE 0) |->
        makeRelatedInformation(directives[i].name, RequiresCtorText)]

\* directives.map(dir => makeRelatedInformation(dir.name, ...))
InlineTypeCtorRelated(directives) ==
    [i \in 1..Len(directives) |->
        makeRelatedInformation(directives[i].name, RequiresCtorText)]

requiresInlineTypeConstructors(templateId, node, directives) ==
    Returned(makeInlineDiagnostic(
        templateId, "INLINE_TYPE_CTOR_REQUIRED", node.name,
        InlineTypeCtorMessage(directives), InlineTypeCtorRelated(directives)))

(***************************************************************************)
(* The state machine: one action per method call.                          *)
(***************************************************************************)
Init ==
    /\ diagnostics = <<>>
    /\ resolver \in Resolvers
    /\ last = [op |-> "new", templateId |-> "", args |-> <<>>, outcome |-> "returned"]
    /\ calls = <<>>

\* One call of method `op`, whose body evaluated to `r`.
Call(op, templateId, args, r) ==
    /\ r.threw \/ Len(diagnostics) < MaxDiags
    /\ diagnostics' = r.diagnostics
    /\ last' = [op |-> op, templateId |-> templateId, args |-> args,
                outcome |-> IF r.threw THEN "threw" ELSE "returned"]
    /\ calls' = IF r.threw
                THEN calls
                ELSE Append(calls, [op |-> op, templateId |-> templateId,
                                    created |-> r.created])
    /\ UNCHANGED resolver

CallMissingReferenceTarget ==
    \E templateId \in TemplateIds, ref \in Refs :
        Call("missingReferenceTarget", templateId, <<ref>>,
             missingReferenceTarget(templateId, ref))

CallMissingPipe ==
    \E templateId \in TemplateIds, ast \in Pipes :
        Call("missingPipe", templateId, <<ast>>, missingPipe(templateId, ast))

CallIllegalAssignmentToTemplateVar ==
    \E templateId \in TemplateIds, assignment \in PropertyWrites, target \in Variables :
        Call("illegalAssignmentToTemplateVar", templateId, <<assignment, target>>,
             illegalAssignmentToTemplateVar(templateId, assignment, target))

CallDuplicateTemplateVar ==
    \E templateId \in TemplateIds, variable \in Variables, firstDecl \in Variables :
        Call("duplicateTemplateVar", templateId, <<variable, firstDecl>>,
             duplicateTemplateVar(templateId, variable, firstDecl))

CallRequiresInlineTcb ==
    \E templateId \in TemplateIds, node \in Components :
        Call("requiresInlineTcb", templateId, <<node>>,
             requiresInlineTcb(templateId, node))

CallRequiresInlineTypeConstructors ==
    \E templateId \in TemplateIds, node \in Components, directives \in DirectiveLists :
        Call("requiresInlineTypeConstructors", templateId, <<node, directives>>,
             requiresInlineTypeConstructors(templateId, node, directives))

Next ==
    \/ CallMissingReferenceTarget
    \/ CallMissingPipe
    \/ CallIllegalAssignmentToTemplateVar
    \/ CallDuplicateTemplateVar
    \/ CallRequiresInlineTcb
    \/ CallRequiresInlineTypeConstructors

Spec == Init /\ [][Next]_vars

(***************************************************************************)
(* Properties.                                                             *)
(***************************************************************************)
\* The record most recently pushed.
Top == diagnostics[Len(diagnostics)]

\* diagnostics' is diagnostics followed by exactly one record.
OneAppended ==
    /\ Len(diagnostics') = Len(diagnostics) + 1
    /\ SubSeq(diagnostics', 1, Len(diagnostics)) = diagnostics

\* C1: a new recorder's diagnostics is empty; after any sequence of calls, of
\* which N returned, diagnostics has length N and its i-th record is the
\* record built by the i-th call that returned (nothing is removed,
\* reordered or altered by a later call, returning or throwing).
C1_AppendOnlyInCallOrder ==
    /\ last.op = "new" => diagnostics = <<>>
    /\ Len(diagnostics) = Len(calls)
    /\ \A i \in 1..Len(calls) : diagnostics[i] = calls[i].created

\* C1 witness: two different records are stored and a later call has thrown.
C1_Witness ==
    /\ Len(diagnostics) = 2
    /\ diagnostics[1] # diagnostics[2]
    /\ last.outcome = "threw"

\* C2: a missingPipe call whose name span the resolver cannot map throws and
\* leaves diagnostics as it was; one whose name span resolves returns and
\* appends exactly one record, anchored at the resolved span.
C2_MissingPipeAbsentIsFatal ==
    [][ last'.op = "missingPipe" =>
            LET sourceSpan == toParseSourceSpan(last'.templateId, last'.args[1].nameSpan)
            IN  IF sourceSpan = Null
                THEN last'.outcome = "threw" /\ diagnostics' = diagnostics
                ELSE /\ last'.outcome = "returned"
                     /\ OneAppended
                     /\ diagnostics'[Len(diagnostics')].anchor = sourceSpan ]_vars

\* C2 witness: a missingPipe call has thrown on a recorder that already holds
\* the record of a missingPipe call that resolved.
C2_Witness ==
    /\ last.op = "missingPipe"
    /\ last.outcome = "threw"
    /\ Len(diagnostics) >= 1
    /\ Top.code = ngErrorCode("MISSING_PIPE")

\* C3: an illegalAssignmentToTemplateVar call whose assignment span the
\* resolver cannot map throws and leaves diagnostics unchanged: no record
\* and no related information is stored for it.
C3_IllegalAssignmentAbsentIsFatal ==
    [][ ( /\ last'.op = "illegalAssignmentToTemplateVar"
          /\ toParseSourceSpan(last'.templateId, last'.args[1].sourceSpan) = Null )
        => ( last'.outcome = "threw" /\ diagnostics' = diagnostics ) ]_vars

\* C3 witness: such a call has thrown on a recorder that holds records.
C3_Witness ==
    /\ last.op = "illegalAssignmentToTemplateVar"
    /\ last.outcome = "threw"
    /\ Len(diagnostics) >= 1

\* C4 as stated: requiresInlineTypeConstructors uses the singular wording when
\* the directive list has exactly one element and the plural wording for
\* every other length, the empty list included.
C4_SingularIffExactlyOne ==
    last.op = "requiresInlineTypeConstructors" =>
        Top.messageText =
            IF Len(last.args[2]) = 1 THEN SingularMessage ELSE PluralMessage

\* C4 amended: the plural wording is used when the directive list has two or
\* more elements, the singular wording when it has one element or none.
C4_PluralIffMoreThanOne ==
    last.op = "requiresInlineTypeConstructors" =>
        Top.messageText =
            IF Len(last.args[2]) >= 2 THEN PluralMessage ELSE SingularMessage

\* C4 witness: the call was made with the empty directive list.
C4_Witness ==
    /\ last.op = "requiresInlineTypeConstructors"
    /\ last.args[2] = <<>>
    /\ Top.code = ngErrorCode("INLINE_TYPE_CTOR_REQUIRED")

\* C5: the record of requiresInlineTypeConstructors carries one related
\* information per directive, in list order, the i-th anchored at the i-th
\* directive's name node with the text `Requires an inline type constructor.`.
C5_OneRelatedPerDirective ==
    last.op = "requiresInlineTypeConstructors" =>
        LET directives == last.args[2]
            related == Top.relatedInformation
        IN  /\ Len(related) = Len(directives)
            /\ \A i \in 1..Len(directives) :
                   /\ related[i].anchor = directives[i].name
                   /\ related[i].messageText = <<"Requires an inline type constructor.">>

\* C5 witness: the call was made with three directives, not all the same.
C5_Witness ==
    /\ last.op = "requiresInlineTypeConstructors"
    /\ Len(last.args[2]) = 3
    /\ last.args[2][1] # last.args[2][2]
    /\ Len(Top.relatedInformation) = 3

\* C6: the record of illegalAssignmentToTemplateVar has exactly one related
\* information, anchored at the target's value span when it has one and at
\* its source span otherwise; the record itself is anchored at the resolved
\* span of the assignment, never at a span of the target.
C6_RelatedAtTargetVariable ==
    ( last.op = "illegalAssignmentToTemplateVar" /\ last.outcome = "returned" ) =>
        LET assignment == last.args[1]
            target == last.args[2]
        IN  /\ Len(Top.relatedInformation) = 1
            /\ Top.relatedInformation[1].anchor =
                   IF target.valueSpan # Null THEN target.valueSpan ELSE target.sourceSpan
            /\ Top.anchor = toParseSourceSpan(last.templateId, assignment.sourceSpan)
            /\ Top.anchor \notin {target.valueSpan, target.sourceSpan}

\* C6 witness: two calls have returned, one for a target with a value span
\* and one for a target without.
C6_Witness ==
    /\ Len(calls) = 2
    /\ \A i \in 1..2 : calls[i].op = "illegalAssignmentToTemplateVar"
    /\ diagnostics[1].relatedInformation[1].anchor = ParseSourceSpan(6)
    /\ diagnostics[2].relatedInformation[1].anchor = ParseSourceSpan(4)

\* C7 as stated: no call of any of the six methods ever throws.
C7_NeverRaises == last.outcome # "threw"

\* The template-relative span the last call asked the resolver to map.
SpanAsked ==
    IF last.op = "missingPipe" THEN last.args[1].nameSpan ELSE last.args[1].sourceSpan

\* C7 amended: missingReferenceTarget, duplicateTemplateVar, requiresInlineTcb
\* and requiresInlineTypeConstructors never throw; missingPipe and
\* illegalAssignmentToTemplateVar throw exactly when the resolver cannot map
\* the span they ask for, and return otherwise.
C7_RaisesOnlyOnAbsentSpan ==
    last.outcome = "threw" <=>
        ( /\ last.op \in {"missingPipe", "illegalAssignmentToTemplateVar"}
          /\ toParseSourceSpan(last.templateId, SpanAsked) = Null )

\* C7 witness: a call has thrown, and calls of a method that asks the
\* resolver and of one that does not have returned.
C7_Witness ==
    /\ last.outcome = "threw"
    /\ Len(calls) = 2
    /\ calls[1].op = "missingPipe"
    /\ calls[2].op = "missingReferenceTarget"

\* C8: duplicateTemplateVar always returns and appends exactly one record,
\* anchored at the duplicate variable's own source span, with a single
\* related information anchored at the first declaration's own source span;
\* neither span goes through the resolver.
C8_DuplicateUsesDeclarationSpans ==
    [][ last'.op = "duplicateTemplateVar" =>
            LET d == diagnostics'[Len(diagnostics')]
            IN  /\ last'.outcome = "returned"
                /\ OneAppended
                /\ d.anchor = last'.args[1].sourceSpan
                /\ Len(d.relatedInformation) = 1
                /\ d.relatedInformation[1].anchor = last'.args[2].sourceSpan ]_vars

\* C8 witness: the call returned under a resolver that maps no span at all,
\* for two different declarations.
C8_Witness ==
    /\ last.op = "duplicateTemplateVar"
    /\ last.outcome = "returned"
    /\ \A s \in AbsSpans : toParseSourceSpan(last.templateId, s) = Null
    /\ last.args[1] # last.args[2]
    /\ Top.code = ngErrorCode("DUPLICATE_VARIABLE_DECLARATION")

\* C9: every stored record has a resolved, non-null anchor (never the
\* resolver's null, never an untranslated template-relative span); the
\* record of missingReferenceTarget is anchored at the reference's value span
\* when it has one and at its source span otherwise.
C9_AnchorsResolved ==
    /\ \A i \in 1..Len(diagnostics) :
           /\ diagnostics[i].anchor # Null
           /\ diagnostics[i].anchor[1] \in {"ast", "parsed", "ident"}
    /\ last.op = "missingReferenceTarget" =>
           Top.anchor = IF last.args[1].valueSpan # Null
                        THEN last.args[1].valueSpan
                        ELSE last.args[1].sourceSpan

\* C9 witness: a resolver that cannot map every span, a stored record of a
\* method that asks it, and a missingReferenceTarget call without a value span.
C9_Witness ==
    /\ \E s \in AbsSpans : toParseSourceSpan("tcb1", s) = Null
    /\ Len(diagnostics) = 2
    /\ diagnostics[1].code = ngErrorCode("WRITE_TO_READ_ONLY_VARIABLE")
    /\ last.op = "missingReferenceTarget"
    /\ last.args[1].valueSpan = Null

\* C10: every stored record carries the template id passed to the call that
\* built it, whatever the method and however calls for different templates
\* interleave.
C10_TemplateIdOfCall ==
    /\ Len(diagnostics) = Len(calls)
    /\ \A i \in 1..Len(calls) : diagnostics[i].templateId = calls[i].templateId

\* C10 witness: records of two templates, one built by makeInlineDiagnostic
\* and one by makeTemplateDiagnostic.
C10_Witness ==
    /\ Len(calls) = 2
    /\ calls[1].op = "requiresInlineTcb"
    /\ calls[2].op = "duplicateTemplateVar"
    /\ calls[1].templateId = "tcb2"
    /\ calls[2].templateId = "tcb1"

====
